---------------------------- MODULE Spec2Model ----------------------------
(***************************************************************************)
(* Model of hypatia's precision-corrected arithmetic (src/src/maths.js)    *)
(* and of the interpolation values built on it (src/src/maths.js,          *)
(* src/src/geometry.js).                                                   *)
(*                                                                         *)
(* Numbers.  A JavaScript number is modelled as a record                   *)
(*     [k |-> "fin", n |-> numerator, d |-> denominator]   (lowest terms)  *)
(*     [k |-> "inf", n |-> 1 or -1, d |-> 1]               (+-Infinity)    *)
(*     [k |-> "nan", n |-> 0, d |-> 1]                     (NaN)           *)
(* Finite arithmetic is exact rational arithmetic and the sign of zero is   *)
(* not kept (every zero is +0).  The binary rounding error of a double     *)
(* (relative 2^-53) can change what toFixed writes only when the exact     *)
(* value lies halfway between two multiples of 10^-SIGDIG: there the       *)
(* double computed by the callback may lie on either side, so a fold step  *)
(* that rounds such a value has both neighbours as outcomes (outcomes),    *)
(* and the interpolation calls are drawn only where no step meets such a   *)
(* value (tieFree).  The operands the model draws are decimals with at     *)
(* most 5 digits after the point, the dyadic fraction 257/256 = 1.00390625 *)
(* (8 digits after the point, an exact double), NaN and the infinities.    *)
(***************************************************************************)
EXTENDS Integers, Sequences, FiniteSets, TLC

VARIABLES pc, op, values, list, i, acc, result

vars == <<pc, op, values, list, i, acc, result>>

\* maths.js:1
SIGDIG == 5

\* Longest operand list the model draws.
MaxLen == 3

\* The operand lists the model draws keep every integer exponent of pow
\* within MaxExponent, every power's numerator and denominator within
\* MaxMagnitude, and every quotient of divide within MaxMagnitude.
MaxExponent == 16

MaxMagnitude == 20000

-----------------------------------------------------------------------------
(* Integer helpers *)

Abs(x) == IF x < 0 THEN -x ELSE x

Sgn(x) == IF x < 0 THEN -1 ELSE IF x > 0 THEN 1 ELSE 0

RECURSIVE GCD(_, _)
GCD(a, b) == IF b = 0 THEN a ELSE GCD(b, a % b)

RECURSIVE IntPow(_, _)
IntPow(b, e) == IF e = 0 THEN 1 ELSE b * IntPow(b, e - 1)

-----------------------------------------------------------------------------
(* Number values *)

NaN == [k |-> "nan", n |-> 0, d |-> 1]

Infinity == [k |-> "inf", n |-> 1, d |-> 1]

NegInfinity == [k |-> "inf", n |-> -1, d |-> 1]

\* The finite number n/d (d # 0), in lowest terms with a positive denominator.
Q(n, d) ==
    LET g == GCD(Abs(n), Abs(d))
        s == IF d < 0 THEN -1 ELSE 1
    IN  [k |-> "fin", n |-> s * (n \div g), d |-> Abs(d) \div g]

Z(n) == [k |-> "fin", n |-> n, d |-> 1]

isFinite(x) == x.k = "fin"

isZero(x) == x.k = "fin" /\ x.n = 0

isInteger(x) == x.k = "fin" /\ x.d = 1

SignedInfinity(s) == IF s < 0 THEN NegInfinity ELSE Infinity

\* Unary minus.
Negate(x) == [x EXCEPT !.n = -x.n]

\* The JavaScript operator * on two numbers.
Times(a, b) ==
    IF a.k = "nan" \/ b.k = "nan" THEN NaN
    ELSE IF a.k = "inf" \/ b.k = "inf"
         THEN IF isZero(a) \/ isZero(b) THEN NaN
              ELSE SignedInfinity(Sgn(a.n) * Sgn(b.n))
    ELSE IF a.n = 0 \/ b.n = 0 THEN [k |-> "fin", n |-> 0, d |-> 1]
    ELSE LET g1 == GCD(Abs(a.n), b.d)
             g2 == GCD(Abs(b.n), a.d)
         IN  [k |-> "fin",
              n |-> (a.n \div g1) * (b.n \div g2),
              d |-> (a.d \div g2) * (b.d \div g1)]

\* The JavaScript operator / on two numbers.
Over(a, b) ==
    IF a.k = "nan" \/ b.k = "nan" THEN NaN
    ELSE IF a.k = "inf"
         THEN IF b.k = "inf" THEN NaN
              ELSE IF b.n < 0 THEN Negate(a) ELSE a
    ELSE IF b.k = "inf" THEN Z(0)
    ELSE IF b.n = 0
         THEN IF a.n = 0 THEN NaN ELSE SignedInfinity(a.n)
    ELSE Times(a, [k |-> "fin", n |-> Sgn(b.n) * b.d, d |-> Abs(b.n)])

\* The JavaScript operator + on two numbers.
Plus(a, b) ==
    IF a.k = "nan" \/ b.k = "nan" THEN NaN
    ELSE IF a.k = "inf" /\ b.k = "inf"
         THEN IF a.n = b.n THEN a ELSE NaN
    ELSE IF a.k = "inf" THEN a
    ELSE IF b.k = "inf" THEN b
    ELSE LET g == GCD(a.d, b.d)
         IN  Q(a.n * (b.d \div g) + b.n * (a.d \div g), a.d * (b.d \div g))

\* The JavaScript operator - on two numbers.
Minus(a, b) == Plus(a, Negate(b))

\* x ^ e for a finite x # 0 and an integer e >= 0.
RECURSIVE RatPow(_, _)
RatPow(x, e) == IF e = 0 THEN Z(1) ELSE Times(x, RatPow(x, e - 1))

\* Math.pow(base, exponent), for an exponent that is an integer, an
\* infinity or NaN (a finite non-integer exponent of a positive base has an
\* irrational result, which the model does not draw; of a negative base it
\* is NaN).
MathPow(base, exponent) ==
    IF exponent.k = "nan" THEN NaN
    ELSE IF isZero(exponent) THEN Z(1)
    ELSE IF base.k = "nan" THEN NaN
    ELSE IF exponent.k = "inf"
         THEN IF base.k = "fin" /\ Abs(base.n) = base.d THEN NaN
              ELSE IF (base.k = "inf" \/ Abs(base.n) > base.d) = (exponent.n > 0)
                   THEN Infinity ELSE Z(0)
    ELSE IF base.k = "inf"
         THEN IF exponent.n < 0 THEN Z(0)
              ELSE IF base.n < 0 /\ isInteger(exponent) /\ exponent.n % 2 = 1
                   THEN NegInfinity
              ELSE Infinity
    ELSE IF base.n = 0
         THEN IF exponent.n < 0 THEN Infinity ELSE Z(0)
    ELSE IF ~isInteger(exponent)
         THEN CASE base.n < 0 -> NaN
                [] base.n = base.d -> Z(1)
    ELSE IF exponent.n < 0
         THEN RatPow(Q(base.d, base.n), -exponent.n)
    ELSE RatPow(base, exponent.n)

-----------------------------------------------------------------------------
(* Number.prototype.toFixed and parseFloat *)

\* The integer nearest to (q + r/d) * 10^k for 0 <= r < d, the larger one
\* when two are equally near: the digits toFixed writes.
RECURSIVE NearestScaled(_, _, _, _)
NearestScaled(q, r, d, k) ==
    IF k = 0 THEN (IF 2 * r >= d THEN q + 1 ELSE q)
    ELSE NearestScaled(q * 10 + ((r * 10) \div d), (r * 10) % d, d, k - 1)

\* value.toFixed(digits): the string, as its sign, its digits read as an
\* integer (the number written is m / 10^f) and the count f of digits after
\* the point; or one of the words NaN, Infinity, -Infinity.
toFixed(value, digits) ==
    IF value.k = "nan" THEN [s |-> "NaN", neg |-> FALSE, m |-> 0, f |-> 0]
    ELSE IF value.k = "inf"
         THEN [s |-> "Infinity", neg |-> value.n < 0, m |-> 0, f |-> 0]
    ELSE [s |-> "decimal", neg |-> value.n < 0,
          m |-> NearestScaled(Abs(value.n) \div value.d,
                              Abs(value.n) % value.d, value.d, digits),
          f |-> digits]

\* parseFloat(string) of a string toFixed wrote.
parseFloat(str) ==
    IF str.s = "NaN" THEN NaN
    ELSE IF str.s = "Infinity" THEN SignedInfinity(IF str.neg THEN -1 ELSE 1)
    ELSE Q(IF str.neg THEN -str.m ELSE str.m, IntPow(10, str.f))

-----------------------------------------------------------------------------
(* maths.js: precision helpers *)

\* precise with a NaN replaced by 0 (parseFloat(...) || 0).
preciseOrZero(value) ==
    IF value.k = "nan" THEN Z(0) ELSE parseFloat(toFixed(value, SIGDIG))

precise(value) == parseFloat(toFixed(value, SIGDIG))

bigify(value) == Times(precise(value), Z(IntPow(10, SIGDIG)))

smallify(value) == precise(Over(value, Z(IntPow(10, SIGDIG))))

-----------------------------------------------------------------------------
(* maths.js: the five variadic operations, each an Array.prototype.reduce *)

\* add's callback written as subtract's is: seeded by the first operand,
\* with - in the place of +.
addCallbackAsSubtract(a, cur, idx) ==
    IF idx = 0 THEN cur ELSE smallify(Minus(bigify(a), bigify(cur)))

\* add's callback: (acc, cur) => smallify(bigify(acc) + bigify(cur))
addCallback(a, cur, idx) == smallify(Plus(bigify(a), bigify(cur)))

\* subtract's callback seeded by the second operand (i === 1 ? cur).
subtractCallbackSeededLate(a, cur, idx) ==
    IF idx = 1 THEN cur ELSE smallify(Minus(bigify(a), bigify(cur)))

\* subtract's callback without the seeding by the first operand.
subtractCallbackUnseeded(a, cur, idx) ==
    smallify(Minus(bigify(a), bigify(cur)))

\* subtract's callback
subtractCallback(a, cur, idx) ==
    IF idx = 0 THEN cur ELSE smallify(Minus(bigify(a), bigify(cur)))

\* The value cut to SIGDIG decimals toward zero.
truncate(value) ==
    LET r == precise(value)
    IN  IF value.k = "fin" /\ value.n # 0
           /\ Sgn(Minus(r, value).n) = Sgn(value.n)
        THEN Minus(r, Q(Sgn(r.n), IntPow(10, SIGDIG)))
        ELSE r

\* multiply's step with the product cut instead of rounded.
multiplyCallbackTruncating(a, cur, idx) ==
    truncate(Over(Times(bigify(a), cur), Z(IntPow(10, SIGDIG))))

\* multiply's callback
multiplyCallback(a, cur, idx) == smallify(Times(bigify(a), cur))

\* divide's step with the quotient cut instead of rounded.
divideCallbackTruncating(a, cur, idx) ==
    IF idx = 0
    THEN cur
    ELSE truncate(Over(Over(bigify(a), cur), Z(IntPow(10, SIGDIG))))

\* divide's callback
divideCallback(a, cur, idx) ==
    IF idx = 0 THEN cur ELSE smallify(Over(bigify(a), cur))

\* pow's callback
powCallback(a, cur, idx) == precise(MathPow(precise(cur), a))

callback(o, a, cur, idx) ==
    CASE o = "add" -> addCallback(a, cur, idx)
      [] o = "subtract" -> subtractCallback(a, cur, idx)
      [] o = "multiply" -> multiplyCallback(a, cur, idx)
      [] o = "divide" -> divideCallback(a, cur, idx)
      [] o = "pow" -> powCallback(a, cur, idx)

\* The value whose toFixed ends the callback (the argument of the last
\* precise), as the exact arithmetic gives it.
unrounded(o, a, cur, idx) ==
    CASE o = "add" -> Over(Plus(bigify(a), bigify(cur)), Z(IntPow(10, SIGDIG)))
      [] o = "subtract" ->
            Over(Minus(bigify(a), bigify(cur)), Z(IntPow(10, SIGDIG)))
      [] o = "multiply" -> Over(Times(bigify(a), cur), Z(IntPow(10, SIGDIG)))
      [] o = "divide" -> Over(Over(bigify(a), cur), Z(IntPow(10, SIGDIG)))
      [] o = "pow" -> MathPow(precise(cur), a)

\* x lies halfway between two neighbouring multiples of 10^-SIGDIG.
Halfway(x) ==
    /\ x.k = "fin"
    /\ (2 * IntPow(10, SIGDIG)) % x.d = 0
    /\ ((2 * IntPow(10, SIGDIG)) \div x.d) % 2 = 1
    /\ x.n % 2 = 1

\* The callback rounds a value that lies halfway.
roundsTie(o, a, cur, idx) ==
    IF idx = 0 /\ o \in {"subtract", "divide"} THEN FALSE
    ELSE Halfway(unrounded(o, a, cur, idx))

\* The neighbour of r one unit of 10^-SIGDIG nearer to zero.
TowardZero(r) == Minus(r, Q(Sgn(r.n), IntPow(10, SIGDIG)))

\* What the callback may return on doubles: its value in exact arithmetic
\* and, when it rounds a value that lies halfway, the other neighbour too.
outcomes(o, a, cur, idx) ==
    IF roundsTie(o, a, cur, idx)
    THEN {callback(o, a, cur, idx), TowardZero(callback(o, a, cur, idx))}
    ELSE {callback(o, a, cur, idx)}

\* pow seeded with 0, as add is, instead of 1.
initialValueZero(o) == IF o = "multiply" THEN Z(1) ELSE Z(0)

\* The initial value each operation hands to reduce.
initialValue(o) == IF o \in {"multiply", "pow"} THEN Z(1) ELSE Z(0)

\* Array.prototype.reverse
reverse(arr) == [j \in 1..Len(arr) |-> arr[Len(arr) + 1 - j]]

\* The array each operation reduces.
reduced(o, vs) == IF o = "pow" THEN reverse(vs) ELSE vs

\* Array.prototype.reduce from element idx (0-based) on, with accumulator a.
\* The test on the callback's value has it computed before the next call,
\* as reduce computes it.
RECURSIVE reduce(_, _, _, _)
reduce(o, arr, idx, a) ==
    IF idx >= Len(arr) THEN a
    ELSE LET returned == callback(o, a, arr[idx + 1], idx)
         IN  IF returned.k = "nan"
             THEN reduce(o, arr, idx + 1, NaN)
             ELSE reduce(o, arr, idx + 1, returned)

\* No callback of reduce over arr, from element idx on with accumulator a,
\* rounds a value that lies halfway.
RECURSIVE exact(_, _, _, _)
exact(o, arr, idx, a) ==
    IF idx >= Len(arr) THEN TRUE
    ELSE IF roundsTie(o, a, arr[idx + 1], idx) THEN FALSE
    ELSE exact(o, arr, idx + 1, callback(o, a, arr[idx + 1], idx))

\* Every call <<operation, operands>> of the set is free of such values.
tieFree(calls) ==
    \A c \in calls : exact(c[1], reduced(c[1], c[2]), 0, initialValue(c[1]))

add(vs) == reduce("add", reduced("add", vs), 0, initialValue("add"))

subtract(vs) ==
    reduce("subtract", reduced("subtract", vs), 0, initialValue("subtract"))

multiply(vs) ==
    reduce("multiply", reduced("multiply", vs), 0, initialValue("multiply"))

divide(vs) == reduce("divide", reduced("divide", vs), 0, initialValue("divide"))

pow(vs) == reduce("pow", reduced("pow", vs), 0, initialValue("pow"))

-----------------------------------------------------------------------------
(* maths.js: helpers *)

inv(value, minuend) == subtract(<<minuend, value>>)

\* inv(value) with the default minuend = 1
inv1(value) == inv(value, Z(1))

e2(value) == pow(<<value, Z(2)>>)

e3(value) == pow(<<value, Z(3)>>)

neg(value) == multiply(<<value, Z(-1)>>)

\* delta with the operands in the order given: a - b.
deltaSwapped(a, b) == subtract(<<a, b>>)

delta(a, b) == subtract(<<b, a>>)

-----------------------------------------------------------------------------
(* maths.js / geometry.js: interpolation values *)

\* lerp1 with b in the place of delta(a, b).
lerp1WithoutDelta(a, b, t) == add(<<a, multiply(<<b, t>>)>>)

lerp1(a, b, t) == add(<<a, multiply(<<delta(a, b), t>>)>>)

qbez1(a, b, c, t) ==
    add(<<multiply(<<a, e2(inv1(t))>>),
          multiply(<<b, e2(t)>>),
          multiply(<<c, multiply(<<Z(2), subtract(<<t, e2(t)>>)>>)>>)>>)

\* qbez2 passing the control value in qbez1's second slot and the end value
\* in its third, as qbez1's parameter names have them.
qbez2AsDocumented(start, control, end, t) ==
    [x |-> qbez1(start.x, control.x, end.x, t),
     y |-> qbez1(start.y, control.y, end.y, t)]

qbez2(start, control, end, t) ==
    [x |-> qbez1(start.x, end.x, control.x, t),
     y |-> qbez1(start.y, end.y, control.y, t)]

\* cbez1 with the coefficient of b * t^2 as 6 instead of -6.
cbez1SignSlip(a, b, c, d, t) ==
    add(<<a,
          multiply(<<neg(Z(3)), a, t>>),
          multiply(<<Z(3), a, e2(t)>>),
          multiply(<<neg(a), e3(t)>>),
          multiply(<<Z(3), b, t>>),
          multiply(<<Z(6), b, e2(t)>>),
          multiply(<<Z(3), b, e3(t)>>),
          multiply(<<Z(3), c, e2(t)>>),
          multiply(<<neg(Z(3)), c, e3(t)>>),
          multiply(<<d, e3(t)>>)>>)

cbez1(a, b, c, d, t) ==
    add(<<a,
          multiply(<<neg(Z(3)), a, t>>),
          multiply(<<Z(3), a, e2(t)>>),
          multiply(<<neg(a), e3(t)>>),
          multiply(<<Z(3), b, t>>),
          multiply(<<neg(Z(6)), b, e2(t)>>),
          multiply(<<Z(3), b, e3(t)>>),
          multiply(<<Z(3), c, e2(t)>>),
          multiply(<<neg(Z(3)), c, e3(t)>>),
          multiply(<<d, e3(t)>>)>>)

\* The calls of the five operations that lerp1(a, b, t) makes.
lerp1Calls(a, b, t) ==
    {<<"subtract", <<b, a>>>>,
     <<"multiply", <<delta(a, b), t>>>>,
     <<"add", <<a, multiply(<<delta(a, b), t>>)>>>>}

\* The calls of the five operations that qbez1(a, b, c, t) makes.
qbez1Calls(a, b, c, t) ==
    {<<"subtract", <<Z(1), t>>>>,
     <<"pow", <<inv1(t), Z(2)>>>>,
     <<"pow", <<t, Z(2)>>>>,
     <<"subtract", <<t, e2(t)>>>>,
     <<"multiply", <<Z(2), subtract(<<t, e2(t)>>)>>>>,
     <<"multiply", <<a, e2(inv1(t))>>>>,
     <<"multiply", <<b, e2(t)>>>>,
     <<"multiply", <<c, multiply(<<Z(2), subtract(<<t, e2(t)>>)>>)>>>>,
     <<"add", <<multiply(<<a, e2(inv1(t))>>),
                multiply(<<b, e2(t)>>),
                multiply(<<c, multiply(<<Z(2), subtract(<<t, e2(t)>>)>>)>>)>>>>}

\* The calls of the five operations that cbez1(a, b, c, d, t) makes.
cbez1Calls(a, b, c, d, t) ==
    {<<"multiply", <<Z(3), Z(-1)>>>>,
     <<"multiply", <<Z(6), Z(-1)>>>>,
     <<"multiply", <<a, Z(-1)>>>>,
     <<"pow", <<t, Z(2)>>>>,
     <<"pow", <<t, Z(3)>>>>,
     <<"multiply", <<neg(Z(3)), a, t>>>>,
     <<"multiply", <<Z(3), a, e2(t)>>>>,
     <<"multiply", <<neg(a), e3(t)>>>>,
     <<"multiply", <<Z(3), b, t>>>>,
     <<"multiply", <<neg(Z(6)), b, e2(t)>>>>,
     <<"multiply", <<Z(3), b, e3(t)>>>>,
     <<"multiply", <<Z(3), c, e2(t)>>>>,
     <<"multiply", <<neg(Z(3)), c, e3(t)>>>>,
     <<"multiply", <<d, e3(t)>>>>,
     <<"add", <<a,
                multiply(<<neg(Z(3)), a, t>>),
                multiply(<<Z(3), a, e2(t)>>),
                multiply(<<neg(a), e3(t)>>),
                multiply(<<Z(3), b, t>>),
                multiply(<<neg(Z(6)), b, e2(t)>>),
                multiply(<<Z(3), b, e3(t)>>),
                multiply(<<Z(3), c, e2(t)>>),
                multiply(<<neg(Z(3)), c, e3(t)>>),
                multiply(<<d, e3(t)>>)>>>>}

-----------------------------------------------------------------------------
(* The operands the model draws *)

\* 1.00390625: 8 digits after the point, an exact double.
Fine == Q(257, 256)

\* Operands of the lists that hold NaN or an infinity.
Special == {Z(0), Z(2), NaN, Infinity, NegInfinity}

AddOperands == {Z(1), Z(-1), Q(1, 10), Q(-1, 10), Q(3, 10), Q(-2, 10), Fine}

SubtractOperands ==
    {Z(1), Z(-1), Q(1, 10), Q(-1, 10), Q(2, 10), Q(3, 10), Q(-3, 10),
     Fine, Negate(Fine)}

MultiplyOperands == {Z(0), Z(2), Z(-2), Q(-1, 10), Q(2, 10), Q(-3, 10), Fine}

DivideOperands ==
    {Z(0), Z(2), Z(-2), Z(3), Z(-3), Q(-1, 10), Q(2, 10), Q(-3, 10), Fine}

PowOperands == {Z(0), Z(-1), Z(2), Z(-2), Z(3), Fine}

\* Operand lists of length 0..MaxLen over S, and those over Special.
Lists(S) == UNION {[1..len -> S] \cup [1..len -> Special] : len \in 0..MaxLen}

\* b^e, or MaxMagnitude + 1 when it exceeds MaxMagnitude (b >= 1, e >= 0).
Capped(x) == IF x > MaxMagnitude THEN MaxMagnitude + 1 ELSE x

RECURSIVE CappedPow(_, _)
CappedPow(b, e) ==
    IF e = 0 THEN 1
    ELSE IF b > MaxMagnitude THEN MaxMagnitude + 1
    ELSE Capped(CappedPow(b, e - 1) * b)

\* Math.pow(base, exponent) is within the model's range.
PowInRange(base, exponent) ==
    IF base.k # "fin" \/ exponent.k # "fin" THEN TRUE
    ELSE IF base.n = 0 \/ exponent.n = 0 THEN TRUE
    ELSE IF ~isInteger(exponent) THEN base.n < 0 \/ base.n = base.d
    ELSE IF Abs(exponent.n) = 1 THEN TRUE
    ELSE IF Abs(exponent.n) > MaxExponent THEN FALSE
    ELSE CappedPow(Abs(base.n), Abs(exponent.n)) <= MaxMagnitude
         /\ CappedPow(base.d, Abs(exponent.n)) <= MaxMagnitude

\* bigify(a) / cur is within the model's range.
QuotientInRange(a, cur, idx) ==
    IF idx = 0 \/ a.k # "fin" \/ cur.k # "fin" \/ cur.n = 0 THEN TRUE
    ELSE Abs(bigify(a).n) <= (MaxMagnitude * IntPow(10, SIGDIG)) \div cur.d

\* The callback's arithmetic on (a, cur) is within the model's range.
stepInRange(o, a, cur, idx) ==
    CASE o = "pow" -> PowInRange(precise(cur), a)
      [] o = "divide" -> QuotientInRange(a, cur, idx)
      [] OTHER -> TRUE

\* Every callback of reduce over arr, from element idx on with accumulator
\* a, is within the model's range.
RECURSIVE inRange(_, _, _, _)
inRange(o, arr, idx, a) ==
    IF idx >= Len(arr) THEN TRUE
    ELSE IF ~stepInRange(o, a, arr[idx + 1], idx) THEN FALSE
    ELSE LET returned == callback(o, a, arr[idx + 1], idx)
         IN  IF returned.k = "nan"
             THEN inRange(o, arr, idx + 1, NaN)
             ELSE inRange(o, arr, idx + 1, returned)

\* The squares and cubes of t and of 1 - t are within the model's range.
powersInRange(t) ==
    \A x \in {t, inv1(t)}, e \in {Z(2), Z(3)} :
        inRange("pow", reduced("pow", <<x, e>>), 0, initialValue("pow"))

Times01 == {Z(0), Z(1), Q(1, 2), Z(2), Z(-1)}

LerpValues == {Z(0), Z(1), Z(-2), Q(3, 10), Q(12345, 100000), Fine}

BezierValues == {Z(0), Z(1), Z(-2), Q(12345, 100000)}

ControlValues == {Z(0), Z(1), Z(-2)}

Points ==
    {[x |-> Z(1), y |-> Z(-2)], [x |-> Z(-2), y |-> Z(1)],
     [x |-> Fine, y |-> Fine], [x |-> Z(0), y |-> Q(12345, 100000)]}

HelperValues ==
    {Z(0), Z(1), Z(2), Z(3), Z(10), Q(1, 2), Q(-3, 10), Fine}

-----------------------------------------------------------------------------
(* The calls *)

Init ==
    /\ pc = "idle"
    /\ op = "none"
    /\ values = <<>>
    /\ list = <<>>
    /\ i = 0
    /\ acc = Z(0)
    /\ result = Z(0)

\* A call of one of the five operations with operands vs: reduce starts.
Begin(o, vs) ==
    /\ inRange(o, reduced(o, vs), 0, initialValue(o))
    /\ op' = o
    /\ values' = vs
    /\ list' = reduced(o, vs)
    /\ i' = 0
    /\ acc' = initialValue(o)
    /\ pc' = "fold"
    /\ UNCHANGED result

CallAdd ==
    /\ pc = "idle"
    /\ \E vs \in Lists(AddOperands) : Begin("add", vs)

CallSubtract ==
    /\ pc = "idle"
    /\ \E vs \in Lists(SubtractOperands) : Begin("subtract", vs)

CallMultiply ==
    /\ pc = "idle"
    /\ \E vs \in Lists(MultiplyOperands) : Begin("multiply", vs)

CallDivide ==
    /\ pc = "idle"
    /\ \E vs \in Lists(DivideOperands) : Begin("divide", vs)

CallPow ==
    /\ pc = "idle"
    /\ \E vs \in Lists(PowOperands) : Begin("pow", vs)

\* reduce invokes the callback on the next element.
Step ==
    /\ pc = "fold"
    /\ i < Len(list)
    /\ acc' \in outcomes(op, acc, list[i + 1], i)
    /\ i' = i + 1
    /\ UNCHANGED <<pc, op, values, list, result>>

\* reduce returns the accumulator.
Finish ==
    /\ pc = "fold"
    /\ i = Len(list)
    /\ result' = acc
    /\ pc' = "done"
    /\ UNCHANGED <<op, values, list, i, acc>>

\* A call of a function that is one expression over the operations.
Evaluate(o, vs, r) ==
    /\ op' = o
    /\ values' = vs
    /\ result' = r
    /\ pc' = "done"
    /\ UNCHANGED <<list, i, acc>>

CallLerp1 ==
    /\ pc = "idle"
    /\ \E a \in LerpValues, b \in LerpValues, t \in Times01 :
          /\ tieFree(lerp1Calls(a, b, t))
          /\ Evaluate("lerp1", <<a, b, t>>, lerp1(a, b, t))

CallQbez1 ==
    /\ pc = "idle"
    /\ \E a \in BezierValues, b \in BezierValues, c \in BezierValues,
          t \in Times01 :
          /\ powersInRange(t)
          /\ tieFree(qbez1Calls(a, b, c, t))
          /\ Evaluate("qbez1", <<a, b, c, t>>, qbez1(a, b, c, t))

CallCbez1 ==
    /\ pc = "idle"
    /\ \E a \in BezierValues, b \in ControlValues, c \in ControlValues,
          d \in BezierValues, t \in Times01 :
          /\ powersInRange(t)
          /\ tieFree(cbez1Calls(a, b, c, d, t))
          /\ Evaluate("cbez1", <<a, b, c, d, t>>, cbez1(a, b, c, d, t))

CallQbez2 ==
    /\ pc = "idle"
    /\ \E start \in Points, control \in Points, end \in Points, t \in Times01 :
          /\ powersInRange(t)
          /\ tieFree(qbez1Calls(start.x, end.x, control.x, t))
          /\ tieFree(qbez1Calls(start.y, end.y, control.y, t))
          /\ Evaluate("qbez2", <<start, control, end, t>>,
                      qbez2(start, control, end, t))

\* inv(value) takes the default minuend, inv(value, minuend) the one given.
CallInv ==
    /\ pc = "idle"
    /\ \E value \in HelperValues :
          \/ /\ tieFree({<<"subtract", <<Z(1), value>>>>})
             /\ Evaluate("inv", <<value>>, inv1(value))
          \/ \E minuend \in HelperValues :
                /\ tieFree({<<"subtract", <<minuend, value>>>>})
                /\ Evaluate("inv", <<value, minuend>>, inv(value, minuend))

CallNeg ==
    /\ pc = "idle"
    /\ \E value \in HelperValues :
          /\ tieFree({<<"multiply", <<value, Z(-1)>>>>})
          /\ Evaluate("neg", <<value>>, neg(value))

CallDelta ==
    /\ pc = "idle"
    /\ \E a \in HelperValues, b \in HelperValues :
          /\ tieFree({<<"subtract", <<b, a>>>>})
          /\ Evaluate("delta", <<a, b>>, delta(a, b))

\* The caller takes the result; nothing is kept between calls.
Return ==
    /\ pc = "done"
    /\ pc' = "idle"
    /\ op' = "none"
    /\ values' = <<>>
    /\ list' = <<>>
    /\ i' = 0
    /\ acc' = Z(0)
    /\ result' = Z(0)

Next ==
    \/ CallAdd
    \/ CallSubtract
    \/ CallMultiply
    \/ CallDivide
    \/ CallPow
    \/ Step
    \/ Finish
    \/ CallLerp1
    \/ CallQbez1
    \/ CallCbez1
    \/ CallQbez2
    \/ CallInv
    \/ CallNeg
    \/ CallDelta
    \/ Return

Spec == Init /\ [][Next]_vars

-----------------------------------------------------------------------------
(* Vocabulary of the properties *)

Core == {"add", "subtract", "multiply", "divide", "pow"}

\* The decimal m * 10^-5.
Dec5(m) == Q(m, 100000)

\* x is a multiple of 10^-SIGDIG.
OnGrid(x) == x.k = "fin" /\ IntPow(10, SIGDIG) % x.d = 0

AllFinite(vs) == \A j \in DOMAIN vs : vs[j].k = "fin"

HasNonFinite(vs) == \E j \in DOMAIN vs : vs[j].k # "fin"

\* |r - x| <= u / 10^SIGDIG, for finite r and x.
Within(r, x, u) ==
    LET e == Minus(r, x)
    IN  Abs(e.n) <= (u * e.d) \div IntPow(10, SIGDIG)

\* r is a multiple of 10^-SIGDIG nearest to the finite x (either one when x
\* lies halfway): 2 * |r - x| <= 10^-SIGDIG.
Nearest(r, x) ==
    /\ OnGrid(r)
    /\ x.k = "fin"
    /\ LET e == Minus(r, x)
       IN  Abs(e.n) <= e.d \div (2 * IntPow(10, SIGDIG))

Returned(o) == pc = "done" /\ op = o

-----------------------------------------------------------------------------
\* C1: for add, subtract, multiply, divide and pow and every operand list of
\* length >= 1 of finite values, the returned value is a multiple of 10^-5
\* (rounded to SIGDIG = 5 digits after the decimal point).
C1_RoundedToSigdig ==
    (pc = "done" /\ op \in Core /\ Len(values) >= 1 /\ AllFinite(values))
        => OnGrid(result)

-----------------------------------------------------------------------------
\* The exponent tower over vs[from..Len(vs)], innermost exponent last:
\* vs[from] ^ (vs[from+1] ^ (... ^ (vs[Len(vs)] ^ 1))), rounded to SIGDIG
\* decimals after each exponentiation.
RECURSIVE Tower(_, _)
Tower(vs, from) ==
    IF from > Len(vs)
    THEN Z(1)
    ELSE precise(MathPow(precise(vs[from]), Tower(vs, from + 1)))

-----------------------------------------------------------------------------
-----------------------------------------------------------------------------
\* C4: divide cuts the quotient to 5 decimals toward zero at every fold step:
\* divide(2,3) = 0.66666, divide(-2,3) = -0.66666, divide(-2,-3) = 0.66666,
\* divide(2,3,2) = 0.33333, divide(-2,-3,-2) = -0.33333 and
\* divide(-0.1,0.2,-0.3) = 1.66666.
C4_TruncatedQuotient ==
    Returned("divide") =>
        /\ (values = <<Z(2), Z(3)>> => result = Dec5(66666))
        /\ (values = <<Z(-2), Z(3)>> => result = Dec5(-66666))
        /\ (values = <<Z(-2), Z(-3)>> => result = Dec5(66666))
        /\ (values = <<Z(2), Z(3), Z(2)>> => result = Dec5(33333))
        /\ (values = <<Z(-2), Z(-3), Z(-2)>> => result = Dec5(-33333))
        /\ (values = <<Q(-1, 10), Q(2, 10), Q(-3, 10)>>
              => result = Dec5(166666))

-----------------------------------------------------------------------------
\* The fold of a division has met a non-finite first operand, or a later
\* operand that is zero or NaN.
Poisoned ==
    \/ i >= 1 /\ list[1].k # "fin"
    \/ \E j \in 2..i : isZero(list[j]) \/ list[j].k = "nan"

\* A fold that has operands left takes its next step: the callback returns
\* a number on the accumulator and the operand it is called on.
NeverRaises ==
    (pc = "fold" /\ i < Len(list))
        => \E r \in outcomes(op, acc, list[i + 1], i) :
              r.k \in {"fin", "inf", "nan"}

\* C5 as stated: for every core operation and every operand list with a NaN,
\* +infinity or -infinity operand the call completes without raising and the
\* result is non-finite; a division by a zero operand yields a non-finite
\* value that stays non-finite through every later fold step.
C5_NonFinitePropagates ==
    /\ NeverRaises
    /\ (pc = "done" /\ op \in Core /\ HasNonFinite(values))
          => result.k # "fin"
    /\ (op = "divide" /\ pc \in {"fold", "done"}
          /\ \E j \in 2..i : isZero(list[j]))
          => acc.k # "fin"

\* C5 amended: no core call raises; add, subtract and multiply return a
\* non-finite result for every operand list with a NaN or infinite operand;
\* divide's accumulator is non-finite from the step on that meets a
\* non-finite first operand or a later zero or NaN operand, at every later
\* step and in the result (a finite accumulator divided by an infinity is 0,
\* and pow can return a finite value from a non-finite operand).
C5_NonFiniteWherePropagated ==
    /\ NeverRaises
    /\ (pc = "done" /\ op \in {"add", "subtract", "multiply"}
          /\ HasNonFinite(values))
          => result.k # "fin"
    /\ (op = "divide" /\ pc \in {"fold", "done"} /\ Poisoned)
          => acc.k # "fin"
    /\ (Returned("divide") /\ Poisoned) => result.k # "fin"

C5_Witness ==
    /\ Returned("divide")
    /\ values = <<Z(2), Z(0), Infinity>>
    /\ result = NaN

-----------------------------------------------------------------------------
\* C6: qbez1(a, b, c, t), with a the start, b the control and c the end
\* value, returns a at t = 0 and the end value c at t = 1, for all a, b, c
\* of at most 5 decimals.
C6_QuadraticEndpoints ==
    (Returned("qbez1") /\ \A j \in 1..3 : OnGrid(values[j]))
        => /\ (values[4] = Z(0) => result = values[1])
           /\ (values[4] = Z(1) => result = values[3])

-----------------------------------------------------------------------------
\* cs[1] + cs[2] * t + cs[3] * t^2 + cs[4] * t^3, exactly.
Poly(cs, t) ==
    Plus(Plus(Z(cs[1]), Times(Z(cs[2]), t)),
         Plus(Times(Z(cs[3]), RatPow(t, 2)), Times(Z(cs[4]), RatPow(t, 3))))

\* The cubic Bezier polynomial in Bernstein form, exactly.
Bernstein(a, b, c, d, t) ==
    Plus(Plus(Times(a, Poly(<<1, -3, 3, -1>>, t)),
              Times(b, Poly(<<0, 3, -6, 3>>, t))),
         Plus(Times(c, Poly(<<0, 0, 3, -3>>, t)),
              Times(d, Poly(<<0, 0, 0, 1>>, t))))

\* C7: cbez1(a, b, c, d, t) returns a at t = 0 and d at t = 1 for all
\* a, b, c, d of at most 5 decimals, and its ten terms carry the
\* coefficients 1, -3, 3, -1 for a, 3, -6, 3 for b, 3, -3 for c and 1 for d
\* on the matching powers of t: the result is that polynomial exactly at an
\* integer t, and within the nine roundings of its terms otherwise.
C7_CubicBernstein ==
    (Returned("cbez1") /\ \A j \in 1..4 : OnGrid(values[j]))
        => /\ (values[5] = Z(0) => result = values[1])
           /\ (values[5] = Z(1) => result = values[4])
           /\ (isInteger(values[5])
                 => result = Bernstein(values[1], values[2], values[3],
                                       values[4], values[5]))
           /\ OnGrid(result)
           /\ Within(result, Bernstein(values[1], values[2], values[3],
                                       values[4], values[5]), 5)

C7_Witness ==
    /\ Returned("cbez1")
    /\ values[5] = Z(1)
    /\ values[1] # values[4]
    /\ values[2] # values[4]
    /\ result = values[4]

-----------------------------------------------------------------------------
MultiplyExamples ==
    Returned("multiply") =>
        /\ (values = <<>> => result = Z(1))
        /\ (values = <<Z(2), Z(2), Z(2)>> => result = Z(8))
        /\ (values = <<Z(-2), Z(2), Z(-2)>> => result = Z(8))
        /\ (values = <<Z(-2), Z(-2), Z(-2)>> => result = Z(-8))
        /\ (values = <<Q(-1, 10), Q(2, 10), Q(-3, 10)>>
              => result = Dec5(600))

\* The fold starts from accumulator 1 on the operands in the order given.
MultiplySeed ==
    (op = "multiply" /\ pc = "fold" /\ i = 0)
        => acc = Z(1) /\ list = values

\* A step takes the next operand, and leaves round5(round5(acc) * cur).
MultiplyStep ==
    (op = "multiply" /\ pc = "fold" /\ acc' # acc)
        => /\ i' = i + 1
           /\ LET product == Times(precise(acc), list[i + 1])
              IN  IF product.k = "fin"
                  THEN Nearest(acc', product)
                  ELSE acc' = product

\* The call returns the accumulator once every operand is taken.
MultiplyReturn ==
    (op = "multiply" /\ pc = "fold" /\ pc' = "done")
        => i = Len(list) /\ result' = acc

\* C8: multiply(v1, ..., vn) is the left-to-right fold from accumulator 1
\* whose step is round5(round5(acc) * cur), with the accumulator rounded
\* before the product and the current operand used as given; multiply() is
\* 1, multiply(2,2,2) = 8, multiply(-2,2,-2) = 8, multiply(-2,-2,-2) = -8
\* and multiply(-0.1,0.2,-0.3) = 0.006.
C8_MultiplyFold ==
    /\ [](MultiplyExamples /\ MultiplySeed)
    /\ [][MultiplyStep /\ MultiplyReturn]_vars

C8_Witness ==
    /\ Returned("multiply")
    /\ values = <<Z(2), Fine>>
    /\ result = Dec5(200781)

-----------------------------------------------------------------------------
\* C9 as stated: lerp1(a, a, t) = a for every finite a and every t.
C9_DegenerateIsIdentity ==
    (Returned("lerp1") /\ AllFinite(values) /\ values[1] = values[2])
        => result = values[1]

\* C9 amended: lerp1(a, a, t) is a rounded to 5 decimals, for every finite a
\* and every finite t inside or outside [0,1]; it is a itself when a has at
\* most 5 decimals.
C9_DegenerateIsRounded ==
    (Returned("lerp1") /\ AllFinite(values) /\ values[1] = values[2])
        => /\ Nearest(result, values[1])
           /\ (OnGrid(values[1]) => result = values[1])

C9_Witness ==
    /\ Returned("lerp1")
    /\ values = <<Fine, Fine, Z(2)>>
    /\ result = Dec5(100391)

-----------------------------------------------------------------------------
SubtractExamples ==
    Returned("subtract") =>
        /\ (values = <<Z(1), Z(1), Z(1)>> => result = Z(-1))
        /\ (values = <<Z(-1), Z(-1), Z(-1)>> => result = Z(1))
        /\ (values = <<Q(1, 10), Q(3, 10)>> => result = Q(-2, 10))
        /\ (values = <<Q(-1, 10), Q(2, 10), Q(-3, 10)>> => result = Z(0))

\* C10 as stated: subtract folds left to right from the first operand,
\* subtract(a,b,c) = ((a - b) - c) with each difference rounded to 5
\* decimals; subtract(1,1,1) = -1, subtract(-1,-1,-1) = 1,
\* subtract(0.1,0.3) = -0.2 and subtract(-0.1,0.2,-0.3) = 0.
C10_RoundedDifferences ==
    /\ SubtractExamples
    /\ (Returned("subtract") /\ AllFinite(values)) =>
          /\ (Len(values) = 2
                => result = precise(Minus(values[1], values[2])))
          /\ (Len(values) = 3
                => result = precise(Minus(precise(Minus(values[1],
                                                        values[2])),
                                          values[3])))

\* C10 amended: subtract folds left to right from the first operand, and
\* rounds each operand to 5 decimals before it takes the difference:
\* subtract(a,b) = round5(a) - round5(b) and subtract(a,b,c) =
\* (round5(a) - round5(b)) - round5(c), which is ((a - b) - c) when the
\* operands have at most 5 decimals; the four examples hold.
C10_DifferencesOfRounded ==
    /\ SubtractExamples
    /\ (Returned("subtract") /\ AllFinite(values)) =>
          /\ (Len(values) = 2
                => result = Minus(precise(values[1]), precise(values[2])))
          /\ (Len(values) = 3
                => result = Minus(Minus(precise(values[1]),
                                        precise(values[2])),
                                  precise(values[3])))
          /\ ((Len(values) = 3 /\ \A j \in 1..3 : OnGrid(values[j]))
                => result = Minus(Minus(values[1], values[2]), values[3]))

C10_Witness ==
    /\ Returned("subtract")
    /\ values = <<Fine, Negate(Fine)>>
    /\ result = Dec5(200782)

-----------------------------------------------------------------------------
\* C11: for all finite a and b, add(a, b) = add(b, a): the sum of two
\* operands is the same in either order, after rounding.
C11_AddCommutes ==
    (Returned("add") /\ Len(values) = 2 /\ AllFinite(values))
        => result = add(<<values[2], values[1]>>)

C11_Witness ==
    /\ Returned("add")
    /\ values = <<Fine, Q(3, 10)>>
    /\ result = Dec5(130391)
    /\ add(<<Q(3, 10), Fine>>) = Dec5(130391)

-----------------------------------------------------------------------------
\* C12: for all finite a and b, subtract(a, b) and -subtract(b, a) differ by
\* at most one unit in the fifth decimal place (10^-5).
C12_SubtractAntisymmetric ==
    (Returned("subtract") /\ Len(values) = 2 /\ AllFinite(values))
        => Within(result, Negate(subtract(<<values[2], values[1]>>)), 1)

C12_Witness ==
    /\ Returned("subtract")
    /\ values = <<Fine, Q(1, 10)>>
    /\ result = Dec5(90391)
    /\ subtract(<<Q(1, 10), Fine>>) = Dec5(-90391)

-----------------------------------------------------------------------------
\* C13: the helpers fix their argument order: delta(a, b) = subtract(b, a),
\* which is b - a and not a - b; inv(value, minuend) = subtract(minuend,
\* value), with minuend = 1 when it is not given; neg(value) =
\* multiply(value, -1).  Each is the difference, or the negative, of its
\* operands rounded to 5 decimals, so that delta(3, 10) = 7, inv(3, 10) = 7,
\* inv(v) = 1 - v and neg(2) = -2.
C13_HelperArgumentOrder ==
    /\ Returned("delta") =>
          /\ result = subtract(<<values[2], values[1]>>)
          /\ result = Minus(precise(values[2]), precise(values[1]))
          /\ values = <<Z(3), Z(10)>> => result = Z(7)
    /\ (Returned("inv") /\ Len(values) = 2) =>
          /\ result = subtract(<<values[2], values[1]>>)
          /\ result = Minus(precise(values[2]), precise(values[1]))
          /\ values = <<Z(3), Z(10)>> => result = Z(7)
    /\ (Returned("inv") /\ Len(values) = 1) =>
          /\ result = subtract(<<Z(1), values[1]>>)
          /\ result = Minus(Z(1), precise(values[1]))
          /\ Nearest(result, Minus(Z(1), values[1]))
    /\ Returned("neg") =>
          /\ result = multiply(<<values[1], Z(-1)>>)
          /\ result = Negate(precise(values[1]))
          /\ values = <<Z(2)>> => result = Z(-2)

C13_Witness ==
    /\ Returned("delta")
    /\ values = <<Z(3), Z(10)>>
    /\ result = Z(7)
    /\ inv(Z(3), Z(10)) = Z(7)
    /\ inv1(Q(1, 2)) = Q(1, 2)
    /\ neg(Z(2)) = Z(-2)

-----------------------------------------------------------------------------
\* start * (1 - t)^2 + end * t^2 + control * 2 * (t - t^2), computed with
\* subtract, pow, multiply and add.
QuadraticRounded(start, end, control, t) ==
    add(<<multiply(<<start, pow(<<subtract(<<Z(1), t>>), Z(2)>>)>>),
          multiply(<<end, pow(<<t, Z(2)>>)>>),
          multiply(<<control,
                     multiply(<<Z(2), subtract(<<t, pow(<<t, Z(2)>>)>>)>>)>>)>>)

\* The same polynomial, exactly.
Quadratic(start, end, control, t) ==
    Plus(Plus(Times(start, RatPow(Minus(Z(1), t), 2)),
              Times(end, RatPow(t, 2))),
         Times(control, Times(Z(2), Minus(t, RatPow(t, 2)))))

\* The coordinate r of qbez2 for the values start, control, end of its axis.
AxisOfQbez2(r, start, control, end, t) ==
    /\ r = QuadraticRounded(start, end, control, t)
    /\ OnGrid(r)
    /\ isInteger(t) =>
          r = Quadratic(precise(start), precise(end), precise(control), t)
    /\ t = Z(0) => r = precise(start) /\ (OnGrid(start) => r = start)
    /\ t = Z(1) => r = precise(end) /\ (OnGrid(end) => r = end)
    /\ t = Q(1, 2) =>
          Within(r, Plus(Plus(Times(Q(1, 4), start), Times(Q(1, 2), control)),
                         Times(Q(1, 4), end)), 2)

\* C14: qbez2(start, control, end, t) passes each axis to qbez1 in the slot
\* order (start, end, control), so that each coordinate of the result is
\* start * (1 - t)^2 + end * t^2 + control * 2 * (t - t^2) computed with the
\* rounding operations: the point is start at t = 0, end at t = 1, and at
\* t = 0.5 each coordinate is 0.25 * start + 0.5 * control + 0.25 * end up to
\* the roundings; the x of the result is that function of t and the x of the
\* three points alone, and the y of their y alone.
C14_QuadraticPoint ==
    Returned("qbez2") =>
        /\ AxisOfQbez2(result.x, values[1].x, values[2].x, values[3].x,
                       values[4])
        /\ AxisOfQbez2(result.y, values[1].y, values[2].y, values[3].y,
                       values[4])

C14_Witness ==
    /\ Returned("qbez2")
    /\ values = <<[x |-> Z(1), y |-> Z(-2)], [x |-> Z(-2), y |-> Z(1)],
                  [x |-> Fine, y |-> Fine], Q(1, 2)>>
    /\ result = [x |-> Dec5(-49902), y |-> Dec5(25098)]

=============================================================================
